---- MODULE Spec2Model ----
(***************************************************************************)
(* Block state transition of go-earthdollar: StateProcessor.Process,       *)
(* ApplyTransaction, AccumulateRewards and PayRewards                      *)
(* (core/state_processor.go), and of the node: New, upgradeChainDatabase,  *)
(* addMipmapBloomBins, StartAutoDAG and StopAutoDAG (the eth backend).      *)
(*                                                                         *)
(* *big.Int values are modelled as cells of a heap, and a *big.Int         *)
(* variable as the name of the cell it points to, so that two pointers to  *)
(* the same big.Int see each other's writes, as they do in Go.             *)
(***************************************************************************)
EXTENDS Integers, Sequences, FiniteSets, TLC

VARIABLES
    pc,         \* position of the Process call
    block,      \* the block being processed (immutable input)
    stateIn,    \* the balances of the world state as passed to the call
    balances,   \* statedb: address -> balance
    sdTxIndex,  \* statedb.txIndex as set by StartRecord (Go index, -1: none)
    sdThash,    \* statedb.thash as set by StartRecord
    gp,         \* the GasPool of this pass: remaining gas
    heap,       \* big.Int cells: cell name -> value
    receipts,   \* Process: receipts
    allLogs,    \* Process: allLogs
    txi,        \* Process: index (1-based) of the next transaction
    rewards,    \* AccumulateRewards: rewards, a list of *big.Int (cell names)
    ui,         \* AccumulateRewards: index (1-based) of the current uncle
    payIdx,     \* PayRewards: i, the number of credits made
    ret,        \* what Process returned
    db,         \* the chain database: the records it holds
    db0,        \* the chain database before the first startup
    dbEntry,    \* the chain database as passed to the call in progress (or last made)
    dbOps,      \* the database operations issued by that call
    isLDB,      \* whether the database is an *eddb.LDBDatabase
    runs,       \* the number of startups so far
    up,         \* upgradeChainDatabase: position, head, it, block, returned error
    bl,         \* addMipmapBloomBins: position, i, latestBlock, err
    node,       \* New: position, the error it returned, whether the blockchain exists
    autodagquit, \* Earthdollar.autodagquit: nil (0) or a channel
    visible,    \* thread -> the values a read of autodagquit by it may return
    closes,     \* channel -> the number of close calls made on it
    loops,      \* the goroutines of StartAutoDAG: position, the channel of the select
    stops,      \* the calls of StopAutoDAG in progress, by calling thread
    panicked,   \* a close of a closed or nil channel has happened
    stopped     \* a StopAutoDAG call has returned and no StartAutoDAG was called since

procVars == <<pc, block, stateIn, balances, sdTxIndex, sdThash, gp, heap,
              receipts, allLogs, txi, rewards, ui, payIdx, ret>>

storeVars == <<db, db0, dbEntry, dbOps, isLDB, runs, up, bl>>

dagVars == <<autodagquit, visible, closes, loops, stops, panicked, stopped>>

nodeVars == <<node, dagVars>>

vars == <<pc, block, stateIn, balances, sdTxIndex, sdThash, gp, heap,
          receipts, allLogs, txi, rewards, ui, payIdx, ret,
          db, db0, dbEntry, dbOps, isLDB, runs, up, bl,
          node, autodagquit, visible, closes, loops, stops, panicked, stopped>>

(***************************************************************************)
(* Bounds and input sets                                                   *)
(***************************************************************************)
MaxTxs == 3

MaxUncles == 2

Addrs == {"a1", "a2"}

\* the values BlockReward is tried with (5 is the spec's example)
BlockRewards == {5, 64}

HeaderNumbers == {10}

\* 9: a recent uncle; 0: an uncle too distant (9 + 8 - 10 > 0 > 0 + 8 - 10)
UncleNumbers == {0, 9}

GasLimits == {3, 6}

NoErr == "nil"

T1 == [hash |-> "t1", from |-> "a1", to |-> "a2", value |-> 1, gas |-> 2,
       valid |-> TRUE, logs |-> <<"l1">>]

T2 == [hash |-> "t2", from |-> "a2", to |-> "a1", value |-> 3, gas |-> 3,
       valid |-> TRUE, logs |-> <<>>]

T3 == [hash |-> "t3", from |-> "a1", to |-> "a2", value |-> 1, gas |-> 1,
       valid |-> FALSE, logs |-> <<"l3">>]

T4 == [hash |-> "t4", from |-> "a2", to |-> "a2", value |-> 2, gas |-> 1,
       valid |-> TRUE, logs |-> <<"l4", "l5">>]

TxPool == {T1, T2, T3, T4}

\* sequences over S of length at most n
RECURSIVE SeqsUpTo(_, _)
SeqsUpTo(S, n) ==
    IF n = 0 THEN {<<>>}
    ELSE LET shorter == SeqsUpTo(S, n - 1)
         IN  shorter \cup {Append(s, x) : s \in shorter, x \in S}

Range(s) == {s[k] : k \in 1..Len(s)}

\* a block holds a transaction at most once
TxLists == {s \in SeqsUpTo(TxPool, MaxTxs) : Cardinality(Range(s)) = Len(s)}

Uncle == [coinbase : Addrs, number : UncleNumbers]

UncleLists == SeqsUpTo(Uncle, MaxUncles)

(***************************************************************************)
(* The heap of big.Int cells                                               *)
(***************************************************************************)
\* uncle.Number of the i-th uncle header
UncleCells == <<"u1", "u2", "u3", "u4">>

\* cells of a caller-supplied reward list
RewardCells == <<"w1", "w2", "w3", "w4">>

\* receipt.CumulativeGasUsed of the k-th receipt
CumulativeCells == <<"c1", "c2", "c3", "c4">>

Cells == {"BlockReward", "big8", "big32", "totalUsedGas", "r", "miner_reward",
          "hdrNumber"} \cup Range(UncleCells) \cup Range(RewardCells)
                       \cup Range(CumulativeCells)

\* big.Int.Div is Euclidean division: the remainder is never negative
EuclidDiv(x, y) == IF y > 0 THEN x \div y ELSE -(x \div (-y))

\* big.Int.Quo, Go's truncated division (not used by the code)
TruncDiv(x, y) ==
    LET ax == IF x < 0 THEN -x ELSE x
        ay == IF y < 0 THEN -y ELSE y
        q  == ax \div ay
    IN  IF (x < 0) = (y < 0) THEN q ELSE -q

\* z.Set(x), z.Add(x, y), z.Sub(x, y), z.Mul(x, y)
BigSet(h, z, x) == [h EXCEPT ![z] = h[x]]

BigAdd(h, z, x, y) == [h EXCEPT ![z] = h[x] + h[y]]

BigSub(h, z, x, y) == [h EXCEPT ![z] = h[x] - h[y]]

BigMul(h, z, x, y) == [h EXCEPT ![z] = h[x] * h[y]]

\* a rounding bug: z.Quo(x, y) in place of z.Div(x, y)
BigQuo(h, z, x, y) == [h EXCEPT ![z] = TruncDiv(h[x], h[y])]

\* z.Div(x, y)
BigDiv(h, z, x, y) == [h EXCEPT ![z] = EuclidDiv(h[x], h[y])]

\* the values a list of *big.Int holds now
Values(ptrs) == [k \in 1..Len(ptrs) |-> heap[ptrs[k]]]

InitHeap(blockReward, hdrNumber, uncles) ==
    [c \in Cells |->
        IF c = "BlockReward" THEN blockReward
        ELSE IF c = "big8" THEN 8
        ELSE IF c = "big32" THEN 32
        ELSE IF c = "hdrNumber" THEN hdrNumber
        ELSE IF \E k \in 1..Len(uncles) : UncleCells[k] = c
             THEN uncles[CHOOSE k \in 1..Len(uncles) : UncleCells[k] = c].number
        ELSE 0]

(***************************************************************************)
(* Collaborators outside core/state_processor.go                           *)
(***************************************************************************)
\* statedb.AddBalance(addr, amount)
AddBalance(bal, addr, amount) == [bal EXCEPT ![addr] = @ + amount]

\* ApplyMessage: the gas pool is debited by the gas the message uses, and
\* fails with OutOfGas when that exceeds what is left; the executor may
\* reject the message; otherwise the message's value is transferred.
ApplyMessage(bal, pool, tx) ==
    IF tx.gas > pool
        THEN [err |-> "OutOfGas", gas |-> 0, bal |-> bal, gp |-> pool]
    ELSE IF ~tx.valid
        THEN [err |-> "ExecutionFailure", gas |-> 0, bal |-> bal, gp |-> pool]
    ELSE [err |-> NoErr, gas |-> tx.gas, gp |-> pool - tx.gas,
          bal |-> AddBalance(AddBalance(bal, tx.from, -tx.value), tx.to, tx.value)]

\* types.NewReceipt keeps new(big.Int).Set(cumulativeGasUsed): the k-th
\* receipt has a big.Int of its own
NewCumulativeGas(k) == CumulativeCells[k]

\* types.NewReceipt and the fields ApplyTransaction sets; CumulativeGasUsed
\* is a *big.Int, the name of a cell
NewReceipt(root, cumulativeGasUsed, tx, gas) ==
    [PostState |-> root, CumulativeGasUsed |-> cumulativeGasUsed,
     TxHash |-> tx.hash, GasUsed |-> gas, Logs |-> tx.logs]

(***************************************************************************)
(* The chain database (eddb.Database)                                      *)
(***************************************************************************)
MaxBlocks == 3

\* the startups (calls of the migrator or of the index builder) of a run
MaxRuns == 3

HashNames == <<"h1", "h2", "h3", "h4", "h5">>

Hashes == {HashNames[k] : k \in 1..MaxBlocks}

\* block numbers of the canonical chain
Numbers == 0..(MaxBlocks - 1)

\* a record that is absent, a record holding v
None == <<>>

Some(v) == <<v>>

\* the block with hash h: what its combined record decodes to
BlockData(h) ==
    [hash |-> h, td |-> <<"td", h>>, body |-> <<"body", h>>,
     header |-> <<"header", h>>]

\* a database without any record
EmptyDb ==
    [last    |-> None,                      \* "LastBlock"
     old     |-> [h \in Hashes |-> None],   \* "block-hash-" + hash
     td      |-> [h \in Hashes |-> None],
     body    |-> [h \in Hashes |-> None],
     header  |-> [h \in Hashes |-> None],
     version |-> <<>>,                      \* "setting-mipmap-version": bytes
     canon   |-> [n \in Numbers |-> None],  \* canonical hash by number
     bins    |-> [n \in Numbers |-> None], \* bloom bin by number
     bcVersion |-> 0]                       \* "BlockchainVersion", 0: not set

UpIdle == [pc |-> "idle", head |-> "", it |-> <<>>, block |-> None, ret |-> "none"]

BlIdle == [pc |-> "idle", i |-> 0, latestBlock |-> None, err |-> "none"]

\* no database work: the state of the store in a call of Process
StoreIdle ==
    /\ db = EmptyDb
    /\ db0 = EmptyDb
    /\ dbEntry = EmptyDb
    /\ dbOps = {}
    /\ isLDB = TRUE
    /\ runs = 0
    /\ up = UpIdle
    /\ bl = BlIdle

\* the most goroutines StartAutoDAG spawns in a run of the model
MaxLoops == 2

LoopNames == <<"g1", "g2", "g3">>

\* the goroutines of StartAutoDAG; the channel goroutine g makes (line 588)
\* is named g as well
Loops == {LoopNames[k] : k \in 1..MaxLoops}

\* the threads that call StartAutoDAG and StopAutoDAG
Callers == {"t1", "t2"}

\* the nil channel
NilChan == "nil"

NewIdle == [pc |-> "idle", err |-> "none", blockchain |-> FALSE]

LoopIdle == [pc |-> "none", quit |-> NilChan]

\* no node under construction, no DAG loop
NodeIdle ==
    /\ node = NewIdle
    /\ autodagquit = NilChan
    /\ visible = [t \in Callers \cup Loops |-> {NilChan}]
    /\ closes = [c \in Loops |-> 0]
    /\ loops = [g \in Loops |-> LoopIdle]
    /\ stops = [t \in Callers |-> "idle"]
    /\ panicked = FALSE
    /\ stopped = FALSE

\* the process at rest, as it is while the database is prepared
ProcessIdle ==
    /\ pc = "Idle"
    /\ block = [coinbase |-> "a1", gasLimit |-> 0, txs |-> <<>>, uncles |-> <<>>]
    /\ stateIn = [a \in Addrs |-> 0]
    /\ balances = stateIn
    /\ sdTxIndex = -1
    /\ sdThash = "none"
    /\ gp = 0
    /\ heap = [c \in Cells |-> 0]
    /\ receipts = <<>>
    /\ allLogs = <<>>
    /\ txi = 1
    /\ rewards = <<>>
    /\ ui = 1
    /\ payIdx = 0
    /\ ret = [receipts |-> <<>>, logs |-> <<>>, gas |-> 0, err |-> NoErr]

(***************************************************************************)
(* Initial states: a block and a world state handed to Process             *)
(***************************************************************************)
Init ==
    \E txs \in TxLists, uncles \in UncleLists, cb \in Addrs,
       g \in GasLimits, br \in BlockRewards, n \in HeaderNumbers :
        /\ pc = "Idle"
        /\ block = [coinbase |-> cb, gasLimit |-> g, txs |-> txs, uncles |-> uncles]
        /\ stateIn = [a \in Addrs |-> 10]
        /\ balances = stateIn
        /\ sdTxIndex = -1
        /\ sdThash = "none"
        /\ gp = 0
        /\ heap = InitHeap(br, n, uncles)
        /\ receipts = <<>>
        /\ allLogs = <<>>
        /\ txi = 1
        /\ rewards = <<>>
        /\ ui = 1
        /\ payIdx = 0
        /\ ret = [receipts |-> <<>>, logs |-> <<>>, gas |-> 0, err |-> NoErr]
        /\ StoreIdle
        /\ NodeIdle

(***************************************************************************)
(* StateProcessor.Process and ApplyTransaction                             *)
(***************************************************************************)
\* a pool sized one unit of gas too large
GasPoolOffByOne == block.gasLimit + 1

\* gp = new(GasPool).AddGas(block.GasLimit())
GasPoolInit == block.gasLimit

\* Process, lines 35-42: the locals of a pass
ProcessStart ==
    /\ pc = "Idle"
    /\ pc' = "tx"
    /\ receipts' = <<>>
    /\ allLogs' = <<>>
    /\ heap' = [heap EXCEPT !["totalUsedGas"] = 0]
    /\ gp' = GasPoolInit
    /\ txi' = 1
    /\ UNCHANGED <<block, stateIn, balances, sdTxIndex, sdThash, rewards, ui,
                   payIdx, ret>>
    /\ UNCHANGED <<storeVars, nodeVars>>

\* a failing transaction skipped: `continue` in place of `return`
TxFailSkip(tx, res) ==
    /\ txi' = txi + 1
    /\ balances' = res.bal
    /\ gp' = res.gp
    /\ UNCHANGED <<pc, heap, receipts, allLogs, ret>>

\* a failure path that restores the state Process was given
TxFailRevert(tx, res) ==
    /\ pc' = "Failed"
    /\ ret' = [receipts |-> <<>>, logs |-> <<>>,
               gas |-> heap["totalUsedGas"], err |-> res.err]
    /\ balances' = stateIn
    /\ gp' = res.gp
    /\ UNCHANGED <<heap, receipts, allLogs, txi>>

\* ApplyTransaction returns (nil, nil, nil, err); Process returns
\* (nil, nil, totalUsedGas, err) and leaves statedb as the executor left it
TxFail(tx, res) ==
    /\ pc' = "Failed"
    /\ ret' = [receipts |-> <<>>, logs |-> <<>>,
               gas |-> heap["totalUsedGas"], err |-> res.err]
    /\ balances' = res.bal
    /\ gp' = res.gp
    /\ UNCHANGED <<heap, receipts, allLogs, txi>>

\* receipts built but put in front of the list
TxOkPrepend(tx, res) ==
    LET c == NewCumulativeGas(txi)
        h == BigSet([heap EXCEPT !["totalUsedGas"] = @ + res.gas], c, "totalUsedGas")
    IN  /\ heap' = h
        /\ balances' = res.bal
        /\ gp' = res.gp
        /\ receipts' = <<NewReceipt(res.bal, c, tx, res.gas)>> \o receipts
        /\ allLogs' = allLogs \o tx.logs
        /\ txi' = txi + 1
        /\ UNCHANGED <<pc, ret>>

\* the receipt built before usedGas.Add(usedGas, gas)
TxOkReceiptFirst(tx, res) ==
    LET c == NewCumulativeGas(txi)
        h == BigSet(heap, c, "totalUsedGas")
    IN  /\ heap' = [h EXCEPT !["totalUsedGas"] = @ + res.gas]
        /\ balances' = res.bal
        /\ gp' = res.gp
        /\ receipts' = Append(receipts, NewReceipt(res.bal, c, tx, res.gas))
        /\ allLogs' = allLogs \o tx.logs
        /\ txi' = txi + 1
        /\ UNCHANGED <<pc, ret>>

\* ApplyTransaction, lines 72-88, and Process, lines 50-51: usedGas is
\* increased, then the receipt is built with the new total
TxOk(tx, res) ==
    LET c == NewCumulativeGas(txi)
        h == BigSet([heap EXCEPT !["totalUsedGas"] = @ + res.gas], c, "totalUsedGas")
    IN  /\ heap' = h
        /\ balances' = res.bal
        /\ gp' = res.gp
        /\ receipts' = Append(receipts, NewReceipt(res.bal, c, tx, res.gas))
        /\ allLogs' = allLogs \o tx.logs
        /\ txi' = txi + 1
        /\ UNCHANGED <<pc, ret>>

\* one iteration of Process's loop: StartRecord, then ApplyTransaction
TxStep ==
    /\ pc = "tx"
    /\ txi <= Len(block.txs)
    /\ LET tx  == block.txs[txi]
           res == ApplyMessage(balances, gp, tx)
       IN  /\ sdThash' = tx.hash
           /\ sdTxIndex' = txi - 1
           /\ IF res.err # NoErr THEN TxFail(tx, res) ELSE TxOk(tx, res)
    /\ UNCHANGED <<block, stateIn, rewards, ui, payIdx>>
    /\ UNCHANGED <<storeVars, nodeVars>>

(***************************************************************************)
(* AccumulateRewards                                                       *)
(***************************************************************************)
\* miner_reward := BlockReward, the pointer copied instead of the value
MinerRewardAlias == "BlockReward"

\* miner_reward := new(big.Int).Set(BlockReward): a cell of its own
MinerReward == "miner_reward"

\* Process line 55 calls AccumulateRewards; its lines 96-98
AccStart ==
    /\ pc = "tx"
    /\ txi > Len(block.txs)
    /\ pc' = "acc"
    /\ heap' = [BigSet(heap, MinerReward, "BlockReward") EXCEPT !["r"] = 0]
    /\ rewards' = <<>>
    /\ ui' = 1
    /\ UNCHANGED <<block, stateIn, balances, sdTxIndex, sdThash, gp, receipts,
                   allLogs, txi, payIdx, ret>>
    /\ UNCHANGED <<storeVars, nodeVars>>

\* lines 100-105: the uncle's reward is computed in r, and r is appended
AccUncle ==
    /\ pc = "acc"
    /\ ui <= Len(block.uncles)
    /\ LET h1 == BigAdd(heap, "r", UncleCells[ui], "big8")
           h2 == BigSub(h1, "r", "r", "hdrNumber")
           h3 == BigMul(h2, "r", "r", "BlockReward")
           h4 == BigDiv(h3, "r", "r", "big8")
       IN  heap' = h4
    /\ rewards' = Append(rewards, "r")
    /\ pc' = "accBonus"
    /\ UNCHANGED <<block, stateIn, balances, sdTxIndex, sdThash, gp, receipts,
                   allLogs, txi, ui, payIdx, ret>>
    /\ UNCHANGED <<storeVars, nodeVars>>

\* the per-uncle bonus left out of the miner's reward
AccBonusNoAdd ==
    /\ pc = "accBonus"
    /\ heap' = BigDiv(heap, "r", "BlockReward", "big32")
    /\ ui' = ui + 1
    /\ pc' = "acc"
    /\ UNCHANGED <<block, stateIn, balances, sdTxIndex, sdThash, gp, receipts,
                   allLogs, txi, rewards, payIdx, ret>>
    /\ UNCHANGED <<storeVars, nodeVars>>

\* lines 107-108: r is reused for the bonus, which is added to miner_reward
AccBonus ==
    /\ pc = "accBonus"
    /\ LET h1 == BigDiv(heap, "r", "BlockReward", "big32")
       IN  heap' = BigAdd(h1, MinerReward, MinerReward, "r")
    /\ ui' = ui + 1
    /\ pc' = "acc"
    /\ UNCHANGED <<block, stateIn, balances, sdTxIndex, sdThash, gp, receipts,
                   allLogs, txi, rewards, payIdx, ret>>
    /\ UNCHANGED <<storeVars, nodeVars>>

\* lines 111-112; Process line 56 calls PayRewards, whose line 117 is i := 0
AccReturn ==
    /\ pc = "acc"
    /\ ui > Len(block.uncles)
    /\ rewards' = Append(rewards, MinerReward)
    /\ pc' = "pay"
    /\ payIdx' = 0
    /\ UNCHANGED <<block, stateIn, balances, sdTxIndex, sdThash, gp, heap,
                   receipts, allLogs, txi, ui, ret>>
    /\ UNCHANGED <<storeVars, nodeVars>>

(***************************************************************************)
(* PayRewards                                                              *)
(***************************************************************************)
\* every uncle paid the first entry: rewards[0] in place of rewards[i]
PayUncleFirstEntry ==
    /\ pc = "pay"
    /\ payIdx < Len(block.uncles)
    /\ balances' = AddBalance(balances, block.uncles[payIdx + 1].coinbase,
                              heap[rewards[1]])
    /\ payIdx' = payIdx + 1
    /\ UNCHANGED <<pc, block, stateIn, sdTxIndex, sdThash, gp, heap, receipts,
                   allLogs, txi, rewards, ui, ret>>
    /\ UNCHANGED <<storeVars, nodeVars>>

\* lines 118-121: one iteration of the loop over the uncles
PayUncle ==
    /\ pc = "pay"
    /\ payIdx < Len(block.uncles)
    /\ balances' = AddBalance(balances, block.uncles[payIdx + 1].coinbase,
                              heap[rewards[payIdx + 1]])
    /\ payIdx' = payIdx + 1
    /\ UNCHANGED <<pc, block, stateIn, sdTxIndex, sdThash, gp, heap, receipts,
                   allLogs, txi, rewards, ui, ret>>
    /\ UNCHANGED <<storeVars, nodeVars>>

\* the miner paid at once, whatever i is: the loop over the uncles left early
PayMinerEarly ==
    /\ pc = "pay"
    /\ balances' = AddBalance(balances, block.coinbase, heap[rewards[payIdx + 1]])
    /\ pc' = "ret"
    /\ UNCHANGED <<block, stateIn, sdTxIndex, sdThash, gp, heap, receipts,
                   allLogs, txi, rewards, ui, payIdx, ret>>
    /\ UNCHANGED <<storeVars, nodeVars>>

\* line 122: the miner is credited rewards[i], i = len(uncles)
PayMiner ==
    /\ pc = "pay"
    /\ payIdx = Len(block.uncles)
    /\ balances' = AddBalance(balances, block.coinbase, heap[rewards[payIdx + 1]])
    /\ pc' = "ret"
    /\ UNCHANGED <<block, stateIn, sdTxIndex, sdThash, gp, heap, receipts,
                   allLogs, txi, rewards, ui, payIdx, ret>>
    /\ UNCHANGED <<storeVars, nodeVars>>

\* Process line 58: return receipts, allLogs, totalUsedGas, err
ProcessReturn ==
    /\ pc = "ret"
    /\ ret' = [receipts |-> receipts, logs |-> allLogs,
               gas |-> heap["totalUsedGas"], err |-> NoErr]
    /\ pc' = "Committed"
    /\ UNCHANGED <<block, stateIn, balances, sdTxIndex, sdThash, gp, heap,
                   receipts, allLogs, txi, rewards, ui, payIdx>>
    /\ UNCHANGED <<storeVars, nodeVars>>

Next ==
    \/ ProcessStart
    \/ TxStep
    \/ AccStart
    \/ AccUncle
    \/ AccBonus
    \/ AccReturn
    \/ PayUncle
    \/ PayMiner
    \/ ProcessReturn

\* one call of Process on a block and a world state
Spec == Init /\ [][Next]_vars

(***************************************************************************)
(* PayRewards called on its own, with a reward list of the caller          *)
(***************************************************************************)
RewardValues == {-2, 0, 4}

\* the heap with the first Len(vals) reward cells holding vals
WithRewards(h, vals) ==
    [c \in Cells |->
        IF \E k \in 1..Len(vals) : RewardCells[k] = c
        THEN vals[CHOOSE k \in 1..Len(vals) : RewardCells[k] = c]
        ELSE h[c]]

InitPay ==
    \E uncles \in UncleLists, cb \in Addrs, br \in BlockRewards,
       n \in HeaderNumbers :
    \E vals \in [1..(Len(uncles) + 1) -> RewardValues] :
        /\ pc = "pay"
        /\ block = [coinbase |-> cb, gasLimit |-> 0, txs |-> <<>>, uncles |-> uncles]
        /\ stateIn = [a \in Addrs |-> 10]
        /\ balances = stateIn
        /\ sdTxIndex = -1
        /\ sdThash = "none"
        /\ gp = 0
        /\ heap = WithRewards(InitHeap(br, n, uncles), vals)
        /\ receipts = <<>>
        /\ allLogs = <<>>
        /\ txi = 1
        /\ rewards = [k \in 1..(Len(uncles) + 1) |-> RewardCells[k]]
        /\ ui = 1
        /\ payIdx = 0
        /\ ret = [receipts |-> <<>>, logs |-> <<>>, gas |-> 0, err |-> NoErr]
        /\ StoreIdle
        /\ NodeIdle

NextPay ==
    \/ PayUncle
    \/ PayMiner

\* one call of PayRewards
SpecPay == InitPay /\ [][NextPay]_vars

(***************************************************************************)
(* upgradeChainDatabase                                                    *)
(***************************************************************************)
KeysOfKind(kind) == [k \in 1..MaxBlocks |-> <<kind, HashNames[k]>>]

\* the keys of LastBlock and of the records of the blocks, in key order
\* (no other key has the prefix block-hash-, and the loop skips them, line 692)
AllKeys ==
    <<<<"LastBlock", "">>>> \o KeysOfKind("block-hash-") \o KeysOfKind("body")
        \o KeysOfKind("header") \o KeysOfKind("td")

HasKey(d, key) ==
    IF key[1] = "LastBlock" THEN d.last # None
    ELSE IF key[1] = "block-hash-" THEN d.old[key[2]] # None
    ELSE d[key[1]][key[2]] # None

\* db.NewIterator(): the keys of the database as it is now, in key order
NewIterator(d) == SelectSeq(AllKeys, LAMBDA key : HasKey(d, key))

\* the call returns err
UpReturn(err) == [UpIdle EXCEPT !.ret = err]

\* the stores a startup can find: every block has no record, a combined
\* record, split records, or both; LastBlock names a block or is absent
BlockStates == {"none", "legacy", "split", "both"}

StoreOf(last, st) ==
    [EmptyDb EXCEPT
        !.last = last,
        !.old = [h \in Hashes |->
                    IF st[h] \in {"legacy", "both"} THEN Some(BlockData(h)) ELSE None],
        !.td = [h \in Hashes |->
                    IF st[h] \in {"split", "both"} THEN Some(BlockData(h).td) ELSE None],
        !.body = [h \in Hashes |->
                    IF st[h] \in {"split", "both"} THEN Some(BlockData(h).body) ELSE None],
        !.header = [h \in Hashes |->
                    IF st[h] \in {"split", "both"} THEN Some(BlockData(h).header) ELSE None]]

UpgradeStores ==
    {StoreOf(last, st) : last \in {None} \cup {Some(h) : h \in Hashes},
                         st \in [Hashes -> BlockStates]}

InitUpgrade ==
    /\ ProcessIdle
    /\ NodeIdle
    /\ db \in UpgradeStores
    /\ db0 = db
    /\ dbEntry = db
    /\ dbOps = {}
    /\ isLDB \in BOOLEAN
    /\ runs = 0
    /\ up = UpIdle
    /\ bl = BlIdle

\* a detection that looks for the head's new records instead
LegacyDetectedByTd(d) == d.td[d.last[1]] = None

\* a detection that takes the combined record of any block for the head's
LegacyDetectedAnywhere(d) == \E h \in Hashes : d.old[h] # None

\* lines 681-683: GetBlockByHashOld(db, head) finds the head's combined record
LegacyDetected(d) == d.old[d.last[1]] # None

\* lines 674-689: the short circuits, and the iterator of an LDBDatabase
UpDetect ==
    /\ up.pc = "idle"
    /\ runs < MaxRuns
    /\ runs' = runs + 1
    /\ dbEntry' = db
    /\ IF db.last = None
       THEN /\ dbOps' = {"Get LastBlock"}
            /\ up' = UpReturn("nil")
       ELSE IF ~LegacyDetected(db)
       THEN /\ dbOps' = {"Get LastBlock", "GetBlockByHashOld"}
            /\ up' = UpReturn("nil")
       ELSE IF ~isLDB
       THEN /\ dbOps' = {"Get LastBlock", "GetBlockByHashOld"}
            /\ up' = UpReturn("nil")
       ELSE /\ dbOps' = {"Get LastBlock", "GetBlockByHashOld", "NewIterator"}
            /\ up' = [pc |-> "iter", head |-> db.last[1], it |-> NewIterator(db),
                      block |-> None, ret |-> "none"]
    /\ UNCHANGED <<db, db0, isLDB, bl>>
    /\ UNCHANGED <<procVars, nodeVars>>

\* the head's record not skipped
UpgradeKeysWithHead == {j \in 1..Len(up.it) : up.it[j][1] = "block-hash-"}

\* the positions of the iterator at a combined record that is not the head's
UpgradeKeys == {j \in 1..Len(up.it) :
                    up.it[j][1] = "block-hash-" /\ up.it[j][2] # up.head}

\* lines 690-700 and 716: the iterator moves to the next combined record that
\* is not the head's and the block is loaded; at its end the head is loaded
UpIterNext ==
    /\ up.pc = "iter"
    /\ dbOps' = dbOps \cup {"GetBlockByHashOld"}
    /\ IF UpgradeKeys = {}
       THEN up' = [up EXCEPT !.pc = "headTd", !.it = <<>>, !.block = db.old[up.head]]
       ELSE LET j == CHOOSE j \in UpgradeKeys : \A k \in UpgradeKeys : j <= k
            IN  up' = [up EXCEPT !.pc = "td",
                                 !.it = SubSeq(up.it, j + 1, Len(up.it)),
                                 !.block = db.old[up.it[j][2]]]
    /\ UNCHANGED <<db, db0, dbEntry, isLDB, runs, bl>>
    /\ UNCHANGED <<procVars, nodeVars>>

\* a write of one of the split records of up.block: it succeeds and the call
\* goes on as next, or it fails and the call returns the error
UpPut(field, op, next) ==
    /\ dbOps' = dbOps \cup {op}
    /\ \E ok \in BOOLEAN :
        IF ok
        THEN /\ db' = [db EXCEPT ![field][up.block[1].hash] = Some(up.block[1][field])]
             /\ up' = next
        ELSE /\ db' = db
             /\ up' = UpReturn("StorageIO")
    /\ UNCHANGED <<db0, dbEntry, isLDB, runs, bl>>
    /\ UNCHANGED <<procVars, nodeVars>>

\* a loop that deletes the combined record right after the first write
UpWriteTdThenDelete ==
    /\ up.pc = "td"
    /\ UpPut("td", "WriteTd", [up EXCEPT !.pc = "delete"])

\* line 702
UpWriteTd ==
    /\ up.pc = "td"
    /\ UpPut("td", "WriteTd", [up EXCEPT !.pc = "body"])

\* line 705
UpWriteBody ==
    /\ up.pc = "body"
    /\ UpPut("body", "WriteBody", [up EXCEPT !.pc = "header"])

\* line 708
UpWriteHeader ==
    /\ up.pc = "header"
    /\ UpPut("header", "WriteHeader", [up EXCEPT !.pc = "delete"])

\* line 711: db.Delete(it.Key())
UpDelete ==
    /\ up.pc = "delete"
    /\ dbOps' = dbOps \cup {"Delete"}
    /\ \E ok \in BOOLEAN :
        IF ok
        THEN /\ db' = [db EXCEPT !.old[up.block[1].hash] = None]
             /\ up' = [up EXCEPT !.pc = "iter", !.block = None]
        ELSE /\ db' = db
             /\ up' = UpReturn("StorageIO")
    /\ UNCHANGED <<db0, dbEntry, isLDB, runs, bl>>
    /\ UNCHANGED <<procVars, nodeVars>>

\* line 718
UpHeadTd ==
    /\ up.pc = "headTd"
    /\ UpPut("td", "WriteTd", [up EXCEPT !.pc = "headBody"])

\* line 721
UpHeadBody ==
    /\ up.pc = "headBody"
    /\ UpPut("body", "WriteBody", [up EXCEPT !.pc = "headHeader"])

\* lines 724-728: the last write, then return nil
UpHeadHeader ==
    /\ up.pc = "headHeader"
    /\ UpPut("header", "WriteHeader", UpReturn("nil"))

\* the process dies during the call; the database stays as it is
UpCrash ==
    /\ up.pc # "idle"
    /\ up' = UpReturn("crashed")
    /\ UNCHANGED <<db, db0, dbEntry, dbOps, isLDB, runs, bl>>
    /\ UNCHANGED <<procVars, nodeVars>>

NextUpgrade ==
    \/ UpDetect
    \/ UpIterNext
    \/ UpWriteTd
    \/ UpWriteBody
    \/ UpWriteHeader
    \/ UpDelete
    \/ UpHeadTd
    \/ UpHeadBody
    \/ UpHeadHeader
    \/ UpCrash

\* startups of a node, each calling upgradeChainDatabase on the same store
SpecUpgrade == InitUpgrade /\ [][NextUpgrade]_vars

(***************************************************************************)
(* addMipmapBloomBins                                                      *)
(***************************************************************************)
\* const mipmapVersion uint = 2
mipmapVersion == 2

\* rlp.EncodeToBytes of a uint below 128: the byte itself, 0x80 for zero
RlpEncodeUint(v) == IF v = 0 THEN <<128>> ELSE <<v>>

\* rlp.DecodeBytes into a uint, for one byte of input: a byte below 0x80 is
\* its own value (a zero byte is not canonical), 0x80 is zero, anything else
\* here (a list header, say) is an error
RlpDecodeUint(data) ==
    IF Len(data) = 1 /\ data[1] \in 1..127 THEN [ok |-> TRUE, v |-> data[1]]
    ELSE IF data = <<128>> THEN [ok |-> TRUE, v |-> 0]
    ELSE [ok |-> FALSE, v |-> 0]

\* the values of the version marker a startup can find: absent, version 1,
\* version 2, and bytes that decode to no uint
VersionData == {<<>>, RlpEncodeUint(1), RlpEncodeUint(mipmapVersion), <<192>>}

\* the comparison made with another version than mipmapVersion
VersionIsOlder(data) ==
    /\ Len(data) > 0
    /\ RlpDecodeUint(data).ok
    /\ RlpDecodeUint(data).v = mipmapVersion - 1

\* lines 738-742: the stored marker decodes to mipmapVersion
VersionIsCurrent(data) ==
    /\ Len(data) > 0
    /\ RlpDecodeUint(data).ok
    /\ RlpDecodeUint(data).v = mipmapVersion

\* block.NumberU64() of the block with hash h
NumberOf(h) == (CHOOSE k \in 1..MaxBlocks : HashNames[k] = h) - 1

\* core.GetBlock(db, core.GetHeadBlockHash(db)): the number of the head
\* block, None when LastBlock or the head's header or body is missing
LatestBlock(d) ==
    IF d.last = None THEN None
    ELSE IF d.header[d.last[1]] = None \/ d.body[d.last[1]] = None THEN None
    ELSE Some(NumberOf(d.last[1]))

\* core.GetBlockReceipts(db, hash), as the bloom of their logs
ReceiptsBloom(h) == {<<"log", h>>}

\* core.WriteMipmapBloom(db, i, receipts): the bin of number i, with the
\* receipts' logs added to what it holds
WriteMipmapBloom(d, i, bloom) ==
    [d EXCEPT !.bins[i] = Some((IF @ = None THEN {} ELSE @[1]) \cup bloom)]

BlReturn(err) == [BlIdle EXCEPT !.err = err]

BloomStores ==
    {[StoreOf(last, st) EXCEPT !.version = v, !.canon = c] :
        last \in {None} \cup {Some(h) : h \in Hashes},
        st \in [Hashes -> {"none", "split"}],
        v \in VersionData,
        c \in {f \in [Numbers -> {None} \cup {Some(h) : h \in Hashes}] :
                \A n \in Numbers : f[n] # None => NumberOf(f[n][1]) = n}}

InitBloom ==
    /\ ProcessIdle
    /\ NodeIdle
    /\ db \in BloomStores
    /\ db0 = db
    /\ dbEntry = db
    /\ dbOps = {}
    /\ isLDB \in BOOLEAN
    /\ runs = 0
    /\ up = UpIdle
    /\ bl = BlIdle

\* lines 731-754: the version check; past it the deferred function is set up
BlCheckVersion ==
    /\ bl.pc = "idle"
    /\ runs < MaxRuns
    /\ runs' = runs + 1
    /\ dbEntry' = db
    /\ dbOps' = {"Get version"}
    /\ IF VersionIsCurrent(db.version)
       THEN bl' = BlReturn("nil")
       ELSE bl' = [pc |-> "latest", i |-> 0, latestBlock |-> None, err |-> "nil"]
    /\ UNCHANGED <<db, db0, isLDB, up>>
    /\ UNCHANGED <<procVars, nodeVars>>

\* a clean database taken for a corrupted one
BlLatestBlockCleanIsError ==
    /\ bl.pc = "latest"
    /\ dbOps' = dbOps \cup {"GetHeadBlockHash", "GetBlock"}
    /\ IF LatestBlock(db) = None
       THEN bl' = [bl EXCEPT !.pc = "defer", !.err = "CorruptChain"]
       ELSE bl' = [bl EXCEPT !.pc = "loop", !.i = 0, !.latestBlock = LatestBlock(db)]
    /\ UNCHANGED <<db, db0, dbEntry, isLDB, runs, up>>
    /\ UNCHANGED <<procVars, nodeVars>>

\* lines 755-758: the head block; a clean database returns with err = nil
BlLatestBlock ==
    /\ bl.pc = "latest"
    /\ dbOps' = dbOps \cup {"GetHeadBlockHash", "GetBlock"}
    /\ IF LatestBlock(db) = None
       THEN bl' = [bl EXCEPT !.pc = "defer"]
       ELSE bl' = [bl EXCEPT !.pc = "loop", !.i = 0, !.latestBlock = LatestBlock(db)]
    /\ UNCHANGED <<db, db0, dbEntry, isLDB, runs, up>>
    /\ UNCHANGED <<procVars, nodeVars>>

\* lines 763-770: one pass of the loop, or its end. What WriteMipmapBloom
\* returns is dropped (line 767): when the write fails the loop goes on
BlLoop ==
    /\ bl.pc = "loop"
    /\ IF bl.i > bl.latestBlock[1]
       THEN /\ bl' = [bl EXCEPT !.pc = "defer"]
            /\ UNCHANGED <<db, dbOps>>
       ELSE IF db.canon[bl.i] = None
       THEN /\ dbOps' = dbOps \cup {"GetCanonicalHash"}
            /\ bl' = [bl EXCEPT !.pc = "defer", !.err = "CorruptChain"]
            /\ db' = db
       ELSE /\ bl' = [bl EXCEPT !.i = bl.i + 1]
            /\ \E ok \in BOOLEAN :
                IF ok
                THEN /\ db' = WriteMipmapBloom(db, bl.i, ReceiptsBloom(db.canon[bl.i][1]))
                     /\ dbOps' = dbOps \cup {"GetCanonicalHash", "GetBlockReceipts",
                                             "WriteMipmapBloom"}
                ELSE /\ db' = db
                     /\ dbOps' = dbOps \cup {"GetCanonicalHash", "GetBlockReceipts",
                                             "WriteMipmapBloom", "WriteMipmapBloom failed"}
    /\ UNCHANGED <<db0, dbEntry, isLDB, runs, up>>
    /\ UNCHANGED <<procVars, nodeVars>>

\* a deferred function that writes the marker whatever err is
BlDeferAlways ==
    /\ bl.pc = "defer"
    /\ dbOps' = dbOps \cup {"Put version"}
    /\ db' = [db EXCEPT !.version = RlpEncodeUint(mipmapVersion)]
    /\ bl' = BlReturn(bl.err)
    /\ UNCHANGED <<db0, dbEntry, isLDB, runs, up>>
    /\ UNCHANGED <<procVars, nodeVars>>

\* lines 746-754: the deferred function: with err = nil the marker is
\* written, and the error of that write is what the call returns
BlDefer ==
    /\ bl.pc = "defer"
    /\ IF bl.err = "nil"
       THEN /\ dbOps' = dbOps \cup {"Put version"}
            /\ \E ok \in BOOLEAN :
                IF ok
                THEN /\ db' = [db EXCEPT !.version = RlpEncodeUint(mipmapVersion)]
                     /\ bl' = BlReturn("nil")
                ELSE /\ db' = db
                     /\ bl' = BlReturn("StorageIO")
       ELSE /\ bl' = BlReturn(bl.err)
            /\ UNCHANGED <<db, dbOps>>
    /\ UNCHANGED <<db0, dbEntry, isLDB, runs, up>>
    /\ UNCHANGED <<procVars, nodeVars>>

\* the process dies during the call; the database stays as it is
BlCrash ==
    /\ bl.pc # "idle"
    /\ bl' = BlReturn("crashed")
    /\ UNCHANGED <<db, db0, dbEntry, dbOps, isLDB, runs, up>>
    /\ UNCHANGED <<procVars, nodeVars>>

NextBloom ==
    \/ BlCheckVersion
    \/ BlLatestBlock
    \/ BlLoop
    \/ BlDefer
    \/ BlCrash

\* startups of a node, each calling addMipmapBloomBins on the same store
SpecBloom == InitBloom /\ [][NextBloom]_vars

(***************************************************************************)
(* New: the construction of the node                                       *)
(***************************************************************************)
\* config.BlockChainVersion
BlockChainVersions == {3}

\* the values of "BlockchainVersion" a startup can find (0: not set)
StoredBcVersions == {0, 2, 3}

\* every number of the chain has its canonical hash
FullCanon == [n \in Numbers |-> Some(HashNames[n + 1])]

NewStores ==
    {[StoreOf(last, st) EXCEPT !.version = v, !.canon = c, !.bcVersion = b] :
        last \in {None} \cup {Some(h) : h \in Hashes},
        st \in [Hashes -> {"legacy", "split"}],
        v \in VersionData,
        c \in {FullCanon, [FullCanon EXCEPT ![0] = None]},
        b \in StoredBcVersions}

InitNew ==
    /\ ProcessIdle
    /\ NodeIdle
    /\ db \in NewStores
    /\ db0 = db
    /\ dbEntry = db
    /\ dbOps = {}
    /\ isLDB \in BOOLEAN
    /\ runs = 0
    /\ up = UpIdle
    /\ bl = BlIdle

\* New returns (nil, err), or (ed, nil) when err is "nil"
NewReturn(err) == [node EXCEPT !.pc = "returned", !.err = err]

\* the process died in one of the two procedures
NewDead == [node EXCEPT !.pc = "dead"]

\* lines 272-295: the chain database is opened
NewOpenChainDb ==
    /\ node = NewIdle
    /\ \E ok \in BOOLEAN :
        node' = IF ok THEN [node EXCEPT !.pc = "upgrade"]
                ELSE NewReturn("blockchain db err")
    /\ UNCHANGED <<procVars, storeVars, dagVars>>

\* line 296: the call of upgradeChainDatabase, step by step
NewUpgradeStep ==
    /\ node.pc = "upgrade"
    /\ up.pc = "idle" => up.ret = "none"
    /\ NextUpgrade

\* a construction that goes on when upgradeChainDatabase returned an error
NewAfterUpgradeIgnoreErr ==
    /\ node.pc = "upgrade"
    /\ up.pc = "idle"
    /\ up.ret # "none"
    /\ node' = IF up.ret = "crashed" THEN NewDead ELSE [node EXCEPT !.pc = "bloom"]
    /\ UNCHANGED <<procVars, storeVars, dagVars>>

\* lines 296-298: upgradeChainDatabase has returned
NewAfterUpgrade ==
    /\ node.pc = "upgrade"
    /\ up.pc = "idle"
    /\ up.ret # "none"
    /\ node' = IF up.ret = "crashed" THEN NewDead
               ELSE IF up.ret = "nil" THEN [node EXCEPT !.pc = "bloom"]
               ELSE NewReturn(up.ret)
    /\ UNCHANGED <<procVars, storeVars, dagVars>>

\* line 299: the call of addMipmapBloomBins, step by step
NewBloomStep ==
    /\ node.pc = "bloom"
    /\ bl.pc = "idle" => bl.err = "none"
    /\ NextBloom

\* lines 299-301: addMipmapBloomBins has returned
NewAfterBloom ==
    /\ node.pc = "bloom"
    /\ bl.pc = "idle"
    /\ bl.err # "none"
    /\ node' = IF bl.err = "crashed" THEN NewDead
               ELSE IF bl.err = "nil" THEN [node EXCEPT !.pc = "setup"]
               ELSE NewReturn(bl.err)
    /\ UNCHANGED <<procVars, storeVars, dagVars>>

\* lines 663-670: saveBlockchainVersion writes the version when none is set
\* (what db.Put returns is not looked at)
SaveBlockchainVersion(d, bcVersion, ok) ==
    IF d.bcVersion = 0 /\ ok THEN [d EXCEPT !.bcVersion = bcVersion] ELSE d

\* lines 303-397, for a config without a genesis file or block and without
\* Olympic, DevMode or TestNet: the dapp database, the check of the
\* blockchain version, the Earthdollar value and the proof of work
NewSetup ==
    /\ node.pc = "setup"
    /\ \E fail \in BOOLEAN, skip \in BOOLEAN, bcVersion \in BlockChainVersions,
          ok \in BOOLEAN :
        IF fail
        THEN /\ node' = NewReturn("setup err")
             /\ db' = db
        ELSE IF skip
        THEN /\ node' = [node EXCEPT !.pc = "chain"]
             /\ db' = db
        ELSE IF db.bcVersion # bcVersion /\ db.bcVersion # 0
        THEN /\ node' = NewReturn("version mismatch")
             /\ db' = db
        ELSE /\ node' = [node EXCEPT !.pc = "chain"]
             /\ db' = SaveBlockchainVersion(db, bcVersion, ok)
    /\ UNCHANGED <<db0, dbEntry, dbOps, isLDB, runs, up, bl>>
    /\ UNCHANGED <<procVars, dagVars>>

\* lines 399-405: core.NewBlockChain
NewBlockChain ==
    /\ node.pc = "chain"
    /\ \E ok \in BOOLEAN :
        node' = IF ok THEN [node EXCEPT !.pc = "rest", !.blockchain = TRUE]
                ELSE NewReturn("blockchain err")
    /\ UNCHANGED <<procVars, storeVars, dagVars>>

\* lines 406-448: the pool, the protocol manager, the miner and the server
NewFinish ==
    /\ node.pc = "rest"
    /\ \E ok \in BOOLEAN :
        node' = IF ok THEN NewReturn("nil") ELSE NewReturn("protocol err")
    /\ UNCHANGED <<procVars, storeVars, dagVars>>

NextNew ==
    \/ NewOpenChainDb
    \/ NewUpgradeStep
    \/ NewAfterUpgrade
    \/ NewBloomStep
    \/ NewAfterBloom
    \/ NewSetup
    \/ NewBlockChain
    \/ NewFinish

\* one call of New on a store a previous run left
SpecNew == InitNew /\ [][NextNew]_vars

(***************************************************************************)
(* StartAutoDAG, the goroutine it spawns, StopAutoDAG                      *)
(*                                                                         *)
(* The field autodagquit is read and written without synchronisation by   *)
(* the callers and by the goroutine.  A read by a thread returns the value *)
(* of any write that is not ordered before a write the thread knows of:    *)
(* its own last write, and what its spawner could see when it spawned it.  *)
(***************************************************************************)
InitAutoDAG ==
    /\ ProcessIdle
    /\ StoreIdle
    /\ node = [pc |-> "returned", err |-> "nil", blockchain |-> TRUE]
    /\ autodagquit = NilChan
    /\ visible = [t \in Callers \cup Loops |-> {NilChan}]
    /\ closes = [c \in Loops |-> 0]
    /\ loops = [g \in Loops |-> LoopIdle]
    /\ stops = [t \in Callers |-> "idle"]
    /\ panicked = FALSE
    /\ stopped = FALSE

\* thread w assigns v to self.autodagquit
WriteQuit(w, v) ==
    /\ autodagquit' = v
    /\ visible' = [t \in Callers \cup Loops |->
                      IF t = w THEN {v} ELSE visible[t] \cup {v}]

\* the goroutines that have been spawned and have not returned
Running == {g \in Loops : loops[g].pc \in {"spawned", "select", "wait"}}

\* the goroutines not spawned yet
Unspawned == {g \in Loops : loops[g].pc = "none"}

\* lines 580-584 and 623: the check of the field and the go statement
StartAutoDAG(t) ==
    /\ ~panicked
    /\ stops[t] = "idle"
    /\ \E v \in visible[t] :
        IF v # NilChan
        THEN UNCHANGED <<loops, visible>>
        ELSE /\ Unspawned # {}
             /\ LET k == CHOOSE k \in 1..MaxLoops :
                            /\ LoopNames[k] \in Unspawned
                            /\ \A j \in 1..(k - 1) : LoopNames[j] \notin Unspawned
                    g == LoopNames[k]
                IN  /\ loops' = [loops EXCEPT ![g] = [pc |-> "spawned", quit |-> NilChan]]
                    /\ visible' = [visible EXCEPT ![g] = visible[t]]
    /\ stopped' = FALSE
    /\ UNCHANGED <<autodagquit, closes, stops, panicked, node>>
    /\ UNCHANGED <<procVars, storeVars>>

\* lines 585-588: the goroutine makes the channel and stores it in the field
GoMakeChan(g) ==
    /\ ~panicked
    /\ loops[g].pc = "spawned"
    /\ WriteQuit(g, g)
    /\ loops' = [loops EXCEPT ![g].pc = "select"]
    /\ UNCHANGED <<closes, stops, panicked, stopped, node>>
    /\ UNCHANGED <<procVars, storeVars>>

\* lines 589-590 and 618: entering the select, the goroutine reads the field
\* for the channel of the second case
GoSelect(g) ==
    /\ ~panicked
    /\ loops[g].pc = "select"
    /\ \E v \in visible[g] : loops' = [loops EXCEPT ![g] = [pc |-> "wait", quit |-> v]]
    /\ UNCHANGED <<autodagquit, visible, closes, stops, panicked, stopped, node>>
    /\ UNCHANGED <<procVars, storeVars>>

\* lines 591-617: the timer fires; the DAG is checked, and the goroutine
\* returns when ethash.MakeDAG fails (line 610)
GoTimer(g) ==
    /\ ~panicked
    /\ loops[g].pc = "wait"
    /\ \E ok \in BOOLEAN :
        loops' = [loops EXCEPT ![g].pc = IF ok THEN "select" ELSE "returned"]
    /\ UNCHANGED <<autodagquit, visible, closes, stops, panicked, stopped, node>>
    /\ UNCHANGED <<procVars, storeVars>>

\* lines 618-619: the receive from the channel of the select, which is
\* closed (a receive from a nil channel never returns)
GoQuit(g) ==
    /\ ~panicked
    /\ loops[g].pc = "wait"
    /\ loops[g].quit # NilChan
    /\ closes[loops[g].quit] >= 1
    /\ loops' = [loops EXCEPT ![g].pc = "returned"]
    /\ UNCHANGED <<autodagquit, visible, closes, stops, panicked, stopped, node>>
    /\ UNCHANGED <<procVars, storeVars>>

\* line 627, and line 631 when the field is nil
StopCheck(t) ==
    /\ ~panicked
    /\ stops[t] = "idle"
    /\ \E v \in visible[t] :
        IF v # NilChan
        THEN /\ stops' = [stops EXCEPT ![t] = "close"]
             /\ UNCHANGED stopped
        ELSE /\ stopped' = TRUE
             /\ UNCHANGED stops
    /\ UNCHANGED <<autodagquit, visible, closes, loops, panicked, node>>
    /\ UNCHANGED <<procVars, storeVars>>

\* line 628: close(self.autodagquit); the close of a nil channel and the
\* close of a closed channel panic
StopClose(t) ==
    /\ ~panicked
    /\ stops[t] = "close"
    /\ \E v \in visible[t] :
        IF v = NilChan
        THEN /\ panicked' = TRUE
             /\ UNCHANGED closes
        ELSE /\ panicked' = (closes[v] >= 1)
             /\ closes' = [closes EXCEPT ![v] = IF @ >= 1 THEN 2 ELSE 1]
    /\ stops' = [stops EXCEPT ![t] = "nil"]
    /\ UNCHANGED <<autodagquit, visible, loops, stopped, node>>
    /\ UNCHANGED <<procVars, storeVars>>

\* lines 629-632: the field is set to nil and the call returns
StopNil(t) ==
    /\ ~panicked
    /\ stops[t] = "nil"
    /\ WriteQuit(t, NilChan)
    /\ stops' = [stops EXCEPT ![t] = "idle"]
    /\ stopped' = TRUE
    /\ UNCHANGED <<closes, loops, panicked, node>>
    /\ UNCHANGED <<procVars, storeVars>>

NextAutoDAG ==
    \/ \E t \in Callers : StartAutoDAG(t)
    \/ \E g \in Loops : GoMakeChan(g)
    \/ \E g \in Loops : GoSelect(g)
    \/ \E g \in Loops : GoTimer(g)
    \/ \E g \in Loops : GoQuit(g)
    \/ \E t \in Callers : StopCheck(t)
    \/ \E t \in Callers : StopClose(t)
    \/ \E t \in Callers : StopNil(t)

\* the calls of StartAutoDAG and StopAutoDAG on a node, by any thread, and
\* the goroutines, in any interleaving
SpecAutoDAG == InitAutoDAG /\ [][NextAutoDAG]_vars

(***************************************************************************)
(* Definitions the properties are stated with                              *)
(***************************************************************************)
Accumulating == pc \in {"acc", "accBonus"}

RewardStage == pc \in {"acc", "accBonus", "pay", "ret", "Committed"}

\* the gas the first k transactions of txs use
RECURSIVE SumGas(_, _)
SumGas(txs, k) == IF k = 0 THEN 0 ELSE SumGas(txs, k - 1) + txs[k].gas

\* the balances bal after the value transfers of the first k transactions
RECURSIVE AfterTransfers(_, _, _)
AfterTransfers(bal, txs, k) ==
    IF k = 0 THEN bal
    ELSE LET b == AfterTransfers(bal, txs, k - 1)
         IN  [a \in DOMAIN b |->
                b[a] - (IF txs[k].from = a THEN txs[k].value ELSE 0)
                     + (IF txs[k].to = a THEN txs[k].value ELSE 0)]

NumUncles == Len(block.uncles)

\* AccumulateRewards has returned its list
Accumulated == pc \in {"pay", "ret", "Committed"}

\* (u.number + 8 - header.number) * BlockReward for the i-th uncle
UncleProduct(i) ==
    (heap[UncleCells[i]] + 8 - heap["hdrNumber"]) * heap["BlockReward"]

\* the address entry i of the reward list is for: the uncles' coinbases in
\* uncle order, then the block's coinbase
Beneficiary(i) ==
    IF i <= NumUncles THEN block.uncles[i].coinbase ELSE block.coinbase

\* what the first k entries of the reward list give address a
RECURSIVE PaidTo(_, _)
PaidTo(a, k) ==
    IF k = 0 THEN 0
    ELSE PaidTo(a, k - 1) + (IF Beneficiary(k) = a THEN heap[rewards[k]] ELSE 0)

(***************************************************************************)
(* Properties of Process                                                   *)
(***************************************************************************)
\* C1: when every transaction of the block executes without error, Process
\* returns one receipt per transaction, receipt i being that of transaction
\* i, and the total gas used it returns is the sum of the gas the
\* transactions used.
C1_ReceiptPerTransaction ==
    pc = "Committed" =>
        /\ ret.err = NoErr
        /\ Len(ret.receipts) = Len(block.txs)
        /\ \A k \in 1..Len(block.txs) :
            /\ ret.receipts[k].TxHash = block.txs[k].hash
            /\ ret.receipts[k].GasUsed = block.txs[k].gas
        /\ ret.gas = SumGas(block.txs, Len(block.txs))

C1_Witness ==
    /\ pc = "Committed"
    /\ Len(block.txs) >= 2
    /\ Len(ret.receipts) >= 2
    /\ ret.gas > 0

\* C2: when transaction k fails, Process stops at k and returns the error
\* with no receipts and no logs; the transactions before k were all
\* executed, none after k is, no reward is computed or paid, and a block
\* with a failing transaction never gets past its transactions.
C2_FailureStopsTheBlock ==
    /\ pc = "Failed" =>
        /\ ret.err # NoErr
        /\ ret.receipts = <<>>
        /\ ret.logs = <<>>
        /\ txi \in 1..Len(block.txs)
        /\ sdTxIndex = txi - 1
        /\ sdThash = block.txs[txi].hash
        /\ ~block.txs[txi].valid \/ block.txs[txi].gas > gp
        /\ Len(receipts) = txi - 1
        /\ rewards = <<>>
        /\ payIdx = 0
        /\ heap["miner_reward"] = 0
        /\ ~ENABLED Next
    /\ RewardStage =>
        /\ \A k \in 1..Len(block.txs) : block.txs[k].valid
        /\ Len(receipts) = Len(block.txs)

C2_Witness ==
    /\ pc = "Failed"
    /\ txi = 2
    /\ Len(block.txs) > txi
    /\ ret.err = "ExecutionFailure"

\* C3: the gas pool starts at the block's gas limit G and never goes
\* negative, the gas used so far never exceeds G, and a transaction that
\* would take the total above G makes Process return OutOfGas with zero
\* receipts.
C3_GasWithinLimit ==
    /\ pc # "Idle" =>
        /\ gp >= 0
        /\ heap["totalUsedGas"] <= block.gasLimit
        /\ gp = block.gasLimit - heap["totalUsedGas"]
        /\ heap["totalUsedGas"] = SumGas(block.txs, Len(receipts))
    /\ (pc = "Failed" /\ heap["totalUsedGas"] + block.txs[txi].gas > block.gasLimit) =>
        /\ ret.err = "OutOfGas"
        /\ ret.receipts = <<>>
    /\ (pc = "Failed" /\ ret.err = "OutOfGas") =>
        heap["totalUsedGas"] + block.txs[txi].gas > block.gasLimit
    /\ RewardStage => SumGas(block.txs, Len(block.txs)) <= block.gasLimit

C3_Witness ==
    /\ pc = "Failed"
    /\ ret.err = "OutOfGas"
    /\ txi = 2
    /\ heap["totalUsedGas"] > 0
    /\ heap["totalUsedGas"] + block.txs[txi].gas > block.gasLimit

\* C4, as claimed: when Process fails at transaction k, the world state it
\* was given holds none of the effects of the transactions before k.
C4_NoPartialEffects ==
    pc = "Failed" => balances = stateIn

\* C4, amended: when Process fails at transaction k, the world state it was
\* given still holds the effects of the transactions before k, and no
\* reward; Process does not roll the state back.
C4_FailureKeepsEarlierEffects ==
    pc = "Failed" =>
        /\ balances = AfterTransfers(stateIn, block.txs, txi - 1)
        /\ ret.receipts = <<>>

C4_Witness ==
    /\ pc = "Failed"
    /\ txi = 2
    /\ balances # stateIn

(***************************************************************************)
(* Properties of AccumulateRewards and PayRewards                          *)
(***************************************************************************)
\* C5: the list AccumulateRewards returns holds, for every uncle and in
\* uncle order, (u.number + 8 - header.number) * BlockReward / 8 (whichever
\* way the division rounds), followed by one entry for the miner.
C5_UncleEntries ==
    Accumulated =>
        /\ Len(rewards) = NumUncles + 1
        /\ \A k \in 1..NumUncles :
            Values(rewards)[k] \in {TruncDiv(UncleProduct(k), 8),
                                    EuclidDiv(UncleProduct(k), 8)}

\* the spec's example: header 10, one uncle at 9, BlockReward 5
C5_Witness ==
    /\ pc = "pay"
    /\ NumUncles = 1
    /\ heap["u1"] = 9
    /\ heap["hdrNumber"] = 10
    /\ heap["BlockReward"] = 5
    /\ Values(rewards) = <<0, 5>>

\* C6: for n uncles the list has n + 1 entries and its last entry, the
\* miner's reward, is BlockReward + n * (BlockReward / 32), whatever the
\* uncles' numbers are; with no uncle the list is [BlockReward].
C6_MinerEntry ==
    Accumulated =>
        /\ Len(rewards) = NumUncles + 1
        /\ Values(rewards)[NumUncles + 1] =
                heap["BlockReward"] + NumUncles * (heap["BlockReward"] \div 32)
        /\ heap["BlockReward"] \in BlockRewards
        /\ NumUncles = 0 => Values(rewards) = <<heap["BlockReward"]>>

C6_Witness ==
    /\ pc = "pay"
    /\ NumUncles = 2
    /\ heap["BlockReward"] = 64
    /\ Values(rewards)[3] = 68

\* C7, as claimed: the division by 8 of the uncle reward truncates toward
\* zero.
C7_DivisionTruncates ==
    pc = "accBonus" => heap["r"] = TruncDiv(UncleProduct(ui), 8)

\* C7, amended: the division by 8 of the uncle reward floors: the value
\* computed is the largest q with 8 * q <= (u.number + 8 - header.number) *
\* BlockReward, which for a negative product that is no multiple of 8 is one
\* below the quotient rounded toward zero.
C7_DivisionFloors ==
    pc = "accBonus" =>
        LET p == UncleProduct(ui)
            q == heap["r"]
        IN  /\ 8 * q <= p
            /\ p < 8 * q + 8
            /\ (p < 0 /\ p % 8 # 0) => q = TruncDiv(p, 8) - 1

C7_Witness ==
    /\ pc = "accBonus"
    /\ UncleProduct(ui) = -10
    /\ heap["r"] = -2

\* C8: PayRewards credits each beneficiary the entry at its position of the
\* reward list, the uncles in order and then the miner: after i credits the
\* balances are those it was given plus the first i entries, an address
\* that is named several times has the sum of its entries, and an address
\* that is no beneficiary has its balance unchanged.
C8_CreditsMatchPositions ==
    /\ pc = "pay" =>
        \A a \in Addrs : balances[a] = stateIn[a] + PaidTo(a, payIdx)
    /\ pc = "ret" =>
        \A a \in Addrs : balances[a] = stateIn[a] + PaidTo(a, NumUncles + 1)

C8_Witness ==
    /\ pc = "ret"
    /\ NumUncles = 2
    /\ block.uncles[1].coinbase = block.coinbase
    /\ block.uncles[2].coinbase = block.coinbase
    /\ Values(rewards) = <<4, -2, 4>>
    /\ balances[block.coinbase] = stateIn[block.coinbase] + 6
    /\ \A a \in Addrs \ {block.coinbase} : balances[a] = stateIn[a]

\* C9: rewards are computed and paid only after every transaction of the
\* block succeeded; no balance is credited before the whole reward list is
\* computed; the miner is credited only after every uncle has been.
C9_RewardsLast ==
    /\ RewardStage =>
        /\ txi = Len(block.txs) + 1
        /\ Len(receipts) = Len(block.txs)
    /\ (pc \in {"Idle", "tx", "acc", "accBonus", "Failed"}
            \/ (pc = "pay" /\ payIdx = 0)) =>
        /\ payIdx = 0
        /\ balances = AfterTransfers(stateIn, block.txs, Len(receipts))
    /\ pc \in {"pay", "ret", "Committed"} =>
        /\ Len(rewards) = NumUncles + 1
        /\ ui = NumUncles + 1
    /\ pc \in {"ret", "Committed"} => payIdx = NumUncles

C9_Witness ==
    /\ pc = "Committed"
    /\ NumUncles = 2
    /\ Len(block.txs) >= 2
    /\ payIdx = 2

C11_CumulativeGas ==
    /\ \A k \in 1..Len(receipts) :
        /\ heap[receipts[k].CumulativeGasUsed] = SumGas(block.txs, k)
        /\ receipts[k].GasUsed = block.txs[k].gas
        /\ k > 1 => heap[receipts[k].CumulativeGasUsed]
                        >= heap[receipts[k - 1].CumulativeGasUsed]
    /\ pc = "Committed" =>
        /\ ret.receipts = receipts
        /\ Len(receipts) > 0 =>
            heap[receipts[Len(receipts)].CumulativeGasUsed] = ret.gas

C11_Witness ==
    /\ pc = "Committed"
    /\ Len(ret.receipts) = 3
    /\ [k \in 1..3 |-> heap[ret.receipts[k].CumulativeGasUsed]] = <<2, 5, 6>>
    /\ ret.gas = 6

(***************************************************************************)
(* Properties of upgradeChainDatabase                                      *)
(***************************************************************************)
\* a legacy layout: LastBlock names a block that has a combined record
LegacyLayout(d) == d.last # None /\ d.old[d.last[1]] # None

\* the split records of h hold the data of block h
IsSplit(d, h) ==
    /\ d.td[h] = Some(BlockData(h).td)
    /\ d.body[h] = Some(BlockData(h).body)
    /\ d.header[h] = Some(BlockData(h).header)

\* the split records of h are the same in d and e
SameSplit(d, e, h) ==
    /\ d.td[h] = e.td[h]
    /\ d.body[h] = e.body[h]
    /\ d.header[h] = e.header[h]

\* the call in progress has reached the head
AtHead == up.pc \in {"headTd", "headBody", "headHeader"}

\* the call in progress is still in its loop over the iterator
InLoop == up.pc \in {"iter", "td", "body", "header", "delete"}

\* the call has returned (an error or nil)
Returned == up.pc = "idle" /\ up.ret \in {"nil", "StorageIO"}

\* what a migration of d that nothing interrupts leaves: every block with a
\* combined record has its split records, and every combined record but the
\* head's is deleted
Migrated(d) ==
    [d EXCEPT
        !.old = [h \in Hashes |-> IF h = d.last[1] THEN d.old[h] ELSE None],
        !.td = [h \in Hashes |->
                    IF d.old[h] # None THEN Some(d.old[h][1].td) ELSE d.td[h]],
        !.body = [h \in Hashes |->
                    IF d.old[h] # None THEN Some(d.old[h][1].body) ELSE d.body[h]],
        !.header = [h \in Hashes |->
                    IF d.old[h] # None THEN Some(d.old[h][1].header) ELSE d.header[h]]]

\* C12: the head is migrated last: while the call is in its loop the head's
\* split records are as the call found them; when the call is at the head,
\* every other block that had a combined record has its split records and no
\* combined record any more; and a call that ended with a combined record of
\* another block left has not written the head's records.
C12_HeadMigratedLast ==
    /\ InLoop => SameSplit(db, dbEntry, up.head)
    /\ AtHead =>
        \A h \in Hashes \ {up.head} :
            /\ db.old[h] = None
            /\ dbEntry.old[h] # None => IsSplit(db, h)
    /\ (up.pc = "idle" /\ runs > 0 /\ db.last # None
            /\ \E h \in Hashes \ {db.last[1]} : db.old[h] # None) =>
        SameSplit(db, dbEntry, db.last[1])

C12_Witness ==
    /\ up.pc = "headBody"
    /\ Cardinality({h \in Hashes \ {up.head} : dbEntry.old[h] # None}) >= 2
    /\ ~SameSplit(db, dbEntry, up.head)

\* C13: when a call is interrupted (a crash or an error) before the head is
\* migrated, the head's combined record is still there and the next call
\* detects the legacy layout and iterates again; it migrates only blocks
\* whose combined record exists; and a call that completes leaves the store
\* that a migration of the first store, never interrupted, leaves.
C13_InterruptedMigrationResumes ==
    (isLDB /\ LegacyLayout(db0)) =>
        /\ db.last = db0.last
        /\ LegacyLayout(db)
        /\ (up.pc = "idle" /\ runs > 0) => "NewIterator" \in dbOps
        /\ up.pc \in {"td", "body", "header", "delete"} =>
            /\ up.block # None
            /\ db.old[up.block[1].hash] = up.block
            /\ up.block[1].hash # up.head
        /\ \A h \in Hashes \ {db.last[1]} :
            (dbEntry.old[h] = None) => SameSplit(db, dbEntry, h)
        /\ (up.pc = "idle" /\ up.ret = "nil") => db = Migrated(db0)

C13_Witness ==
    /\ isLDB
    /\ LegacyLayout(db0)
    /\ runs = 3
    /\ up.pc = "idle"
    /\ up.ret = "nil"
    /\ db = Migrated(db0)
    /\ dbEntry # db0
    /\ dbEntry # db
    /\ \E h \in Hashes \ {db.last[1]} : dbEntry.old[h] = None /\ db0.old[h] # None
    /\ \E h \in Hashes \ {db.last[1]} : dbEntry.old[h] # None

\* C14: after the migrator returns success on a store (an LDBDatabase) with
\* a legacy layout,
\* every block that had a combined record, the head included, has its three
\* split records with the data of the combined record, and its combined
\* record no longer exists.
C14_AllRecordsSplit ==
    (isLDB /\ up.pc = "idle" /\ up.ret = "nil" /\ LegacyLayout(dbEntry)) =>
        \A h \in Hashes :
            dbEntry.old[h] # None => (IsSplit(db, h) /\ db.old[h] = None)

C14_Witness ==
    /\ isLDB
    /\ up.pc = "idle"
    /\ up.ret = "nil"
    /\ dbEntry = StoreOf(Some("h1"), [h \in Hashes |-> IF h = "h1" THEN "legacy" ELSE "none"])
    /\ IsSplit(db, "h1")
    /\ db.old["h1"] # None

\* a store on which the migrator has completed: nothing is left for it to do
Completed(d) ==
    LegacyLayout(d) =>
        /\ IsSplit(d, d.last[1])
        /\ \A h \in Hashes \ {d.last[1]} : d.old[h] = None

\* C15: a further run on a store on which the migrator has completed returns
\* no error and leaves every key and value of the store unchanged.
C15_SecondRunIsNoOp ==
    (Returned /\ runs > 0 /\ (isLDB => Completed(dbEntry))) =>
        /\ up.ret = "nil"
        /\ db = dbEntry

C15_Witness ==
    /\ isLDB
    /\ runs = 2
    /\ LegacyLayout(db0)
    /\ ~Completed(db0)
    /\ Completed(dbEntry)
    /\ up.pc = "idle"
    /\ up.ret = "StorageIO"
    /\ db = dbEntry

\* the head block is stored in the current format
HeadCurrent(d) == d.last # None /\ IsSplit(d, d.last[1])

\* C16: once the head block is stored in the current format, a call of the
\* migrator detects no legacy layout and returns at once: it creates no
\* iterator and issues no write and no delete.
C16_UpgradeDisabled ==
    (runs > 0 /\ HeadCurrent(dbEntry)) =>
        /\ up.pc = "idle"
        /\ dbOps \cap {"NewIterator", "WriteTd", "WriteBody", "WriteHeader",
                       "Delete"} = {}

C16_Witness ==
    /\ isLDB
    /\ runs = 2
    /\ ~HeadCurrent(db0)
    /\ HeadCurrent(dbEntry)
    /\ up.pc = "idle"
    /\ up.ret = "nil"
    /\ {"NewIterator", "WriteTd", "WriteBody", "WriteHeader"} \subseteq dbOps


(***************************************************************************)
(* addMipmapBloomBins: properties                                          *)
(***************************************************************************)
\* the call has returned to New (it did not die on the way)
BlReturned == runs > 0 /\ bl.pc = "idle" /\ bl.err # "crashed"

\* the numbers the loop of a store walks, 0..head
Walked(d) == IF LatestBlock(d) = None THEN {} ELSE 0..LatestBlock(d)[1]

MissingHashes(d) == {n \in Walked(d) : d.canon[n] = None}

\* the first number of 0..head that has no canonical hash
FirstMissing(d) == CHOOSE n \in MissingHashes(d) : \A m \in MissingHashes(d) : n <= m

\* C17: when the stored version marker decodes to the target version, the
\* builder returns nil having done nothing but read the marker: it reads no
\* head block, canonical hash or receipts, writes no bin and no marker, and
\* the store is as it was at entry.
C17_CurrentVersionIsNoOp ==
    (/\ runs > 0
     /\ RlpDecodeUint(dbEntry.version).ok
     /\ RlpDecodeUint(dbEntry.version).v = mipmapVersion) =>
        /\ bl.pc = "idle"
        /\ bl.err = "nil"
        /\ dbOps = {"Get version"}
        /\ db = dbEntry

\* a run that found the marker current over a chain whose walk had work to
\* do: a head block, all canonical hashes, and a bin that is not there
C17_Witness ==
    /\ runs > 0
    /\ RlpDecodeUint(dbEntry.version).ok
    /\ RlpDecodeUint(dbEntry.version).v = mipmapVersion
    /\ bl = BlReturn("nil")
    /\ LatestBlock(db) # None
    /\ LatestBlock(db)[1] >= 1
    /\ MissingHashes(db) = {}
    /\ \E n \in Walked(db) : db.bins[n] = None

\* C18: when the stored version is not the target and some number of
\* 0..head has no canonical hash, the builder stops at the first such
\* number with the corruption error, writes no bin for that number or a
\* later one and leaves the marker as it was, so that the next startup
\* finds the version not current and builds again.
C18_CorruptChainStopsTheBuild ==
    (/\ runs > 0
     /\ ~VersionIsCurrent(dbEntry.version)
     /\ MissingHashes(dbEntry) # {}) =>
        /\ bl.pc = "loop" => bl.i <= FirstMissing(dbEntry)
        /\ bl.pc = "defer" => bl.err = "CorruptChain"
        /\ BlReturned => bl.err = "CorruptChain"
        /\ \A n \in Numbers : n >= FirstMissing(dbEntry) => db.bins[n] = dbEntry.bins[n]
        /\ db.version = dbEntry.version
        /\ ~VersionIsCurrent(db.version)

\* a build that wrote the bin of number 0 and then returned the corruption
\* error at number 1, in a second or later startup
C18_Witness ==
    /\ BlReturned
    /\ runs >= 2
    /\ bl.err = "CorruptChain"
    /\ ~VersionIsCurrent(dbEntry.version)
    /\ FirstMissing(dbEntry) = 1
    /\ db.bins[0] # None
    /\ "WriteMipmapBloom" \in dbOps

\* C19: a build in which the write of a bloom bin failed returns an error
\* and leaves the version marker as it was.
C19_BinWriteFailurePropagates ==
    (BlReturned /\ "WriteMipmapBloom failed" \in dbOps) =>
        /\ bl.err # "nil"
        /\ db.version = dbEntry.version

\* a build that returned nil and wrote the marker although the write of a
\* bin had failed, the bin being absent from the store
C19_Witness ==
    /\ BlReturned
    /\ "WriteMipmapBloom failed" \in dbOps
    /\ bl.err = "nil"
    /\ ~VersionIsCurrent(dbEntry.version)
    /\ VersionIsCurrent(db.version)
    /\ \E n \in Walked(db) : db.bins[n] = None

\* C20: whenever the marker holds the target version as the result of a
\* build over a chain that is not empty, a bin exists for every number from
\* 0 to the head of that build.
C20_MarkerImpliesAllBins ==
    (/\ VersionIsCurrent(db.version)
     /\ ~VersionIsCurrent(db0.version)
     /\ LatestBlock(db0) # None) =>
        \A n \in Walked(db0) : db.bins[n] # None

\* the marker holds the target version after builds over a chain of two or
\* more blocks, and the bin of number 1 is not in the store
C20_Witness ==
    /\ BlReturned
    /\ VersionIsCurrent(db.version)
    /\ ~VersionIsCurrent(db0.version)
    /\ LatestBlock(db0) # None
    /\ LatestBlock(db0)[1] >= 1
    /\ db.bins[0] # None
    /\ db.bins[1] = None


(***************************************************************************)
(* upgradeChainDatabase: the order of the writes, the short circuits       *)
(***************************************************************************)
\* the data of block h can be read from d: from its combined record or from
\* a complete set of split records
Available(d, h) == d.old[h] = Some(BlockData(h)) \/ IsSplit(d, h)

\* C22: for a block that is not the head the total difficulty is written
\* first, then the body, then the header, and the combined record is
\* deleted only when all three are there; so in every state, a crash
\* included, a block whose data the first store held is still available,
\* from its combined record or from a complete set of split records.
C22_NoBlockLost ==
    /\ up.pc \in {"body", "header", "delete"} =>
        db.td[up.block[1].hash] = Some(up.block[1].td)
    /\ up.pc \in {"header", "delete"} =>
        db.body[up.block[1].hash] = Some(up.block[1].body)
    /\ up.pc = "delete" => IsSplit(db, up.block[1].hash)
    /\ \A h \in Hashes :
        (dbEntry.old[h] # None /\ db.old[h] = None) => IsSplit(db, h)
    /\ \A h \in Hashes : Available(db0, h) => Available(db, h)

\* a call that died between the writes of one block, after it had split
\* and deleted the combined record of another
C22_Witness ==
    /\ up.pc = "idle"
    /\ up.ret = "crashed"
    /\ \E h \in Hashes \ {db.last[1]} :
        /\ db0.old[h] # None
        /\ ~IsSplit(db0, h)
        /\ db.old[h] = None
        /\ IsSplit(db, h)
    /\ \E h \in Hashes \ {db.last[1]} :
        /\ db.old[h] # None
        /\ db0.td[h] = None
        /\ db.td[h] # None
        /\ db.header[h] = None

\* C23: when the store has no LastBlock, or the hash LastBlock holds has no
\* combined record, the migrator returns nil and the store is as it was,
\* whatever other records it holds: it reads LastBlock and the head's
\* combined record and does nothing else.
C23_ShortCircuit ==
    (runs > 0 /\ (dbEntry.last = None \/ dbEntry.old[dbEntry.last[1]] = None)) =>
        /\ up = UpReturn("nil")
        /\ db = dbEntry
        /\ dbOps \subseteq {"Get LastBlock", "GetBlockByHashOld"}

\* a call on an LDBDatabase whose head has no combined record while other
\* blocks have one and no split records
C23_Witness ==
    /\ isLDB
    /\ runs > 0
    /\ up = UpReturn("nil")
    /\ dbEntry.last # None
    /\ dbEntry.old[dbEntry.last[1]] = None
    /\ Cardinality({h \in Hashes : dbEntry.old[h] # None /\ ~IsSplit(dbEntry, h)}) >= 2
    /\ db = dbEntry

(***************************************************************************)
(* addMipmapBloomBins: a clean store                                       *)
(***************************************************************************)
\* the call started on a store without a loadable head block and with a
\* version marker that is not the target version, and it has returned
CleanBuildReturned ==
    /\ BlReturned
    /\ LatestBlock(dbEntry) = None
    /\ ~(RlpDecodeUint(dbEntry.version).ok /\ RlpDecodeUint(dbEntry.version).v = mipmapVersion)

\* C26 as stated: on a clean store whose marker is absent or differs from
\* the target, the builder writes no bin, returns nil and has persisted the
\* target version marker.
C26_CleanStoreAlwaysMarked ==
    CleanBuildReturned =>
        /\ db.bins = dbEntry.bins
        /\ bl.err = "nil"
        /\ db.version = RlpEncodeUint(mipmapVersion)

\* C26 as the code has it: on a clean store whose marker is absent or
\* differs from the target, the builder writes no bin and goes straight to
\* the write of the marker; it returns nil with the target version
\* persisted, or, when that write fails, the error of the write with the
\* store as it was.
C26_CleanStoreMarkedUnlessPutFails ==
    CleanBuildReturned =>
        /\ db.bins = dbEntry.bins
        /\ dbOps = {"Get version", "GetHeadBlockHash", "GetBlock", "Put version"}
        /\ \/ /\ bl.err = "nil"
              /\ db = [dbEntry EXCEPT !.version = RlpEncodeUint(mipmapVersion)]
           \/ /\ bl.err = "StorageIO"
              /\ db = dbEntry

\* a clean store with a marker of version 1: the first call failed to write
\* the marker, the second wrote it
C26_Witness ==
    /\ CleanBuildReturned
    /\ runs = 2
    /\ db0.version = RlpEncodeUint(1)
    /\ dbEntry = db0
    /\ bl.err = "nil"
    /\ db.version = RlpEncodeUint(mipmapVersion)
    /\ db.last # None


(***************************************************************************)
(* New: the order of the stages                                            *)
(***************************************************************************)
\* C21: upgradeChainDatabase runs first; addMipmapBloomBins starts only
\* when upgradeChainDatabase has returned nil; the blockchain is made only
\* when both have returned nil; and when one of them returns an error, New
\* returns that error and runs no later stage.
C21_StagesInOrder ==
    /\ node.pc = "idle" => (up = UpIdle /\ bl = BlIdle /\ db = db0)
    /\ bl # BlIdle => up = UpReturn("nil")
    /\ (node.pc \in {"setup", "chain", "rest"} \/ node.blockchain) =>
        (up = UpReturn("nil") /\ bl = BlReturn("nil"))
    /\ (up.pc = "idle" /\ up.ret \notin {"none", "nil", "crashed"}) =>
        /\ bl = BlIdle
        /\ ~node.blockchain
        /\ node.pc \in {"upgrade", "returned"}
        /\ node.pc = "returned" => node.err = up.ret
    /\ (bl.pc = "idle" /\ bl.err \notin {"none", "nil", "crashed"}) =>
        /\ ~node.blockchain
        /\ node.pc \in {"bloom", "returned"}
        /\ node.pc = "returned" => node.err = bl.err

\* a construction that migrated a legacy store, built the bins of two or
\* more blocks and made the blockchain
C21_Witness ==
    /\ node = [pc |-> "returned", err |-> "nil", blockchain |-> TRUE]
    /\ isLDB
    /\ LegacyLayout(db0)
    /\ ~IsSplit(db0, db0.last[1])
    /\ IsSplit(db, db.last[1])
    /\ db.bins[0] # None
    /\ db.bins[1] # None
    /\ db0.version # db.version


(***************************************************************************)
(* StartAutoDAG and StopAutoDAG: properties                                *)
(***************************************************************************)
\* the goroutines that run and that no StopAutoDAG has told to quit (the
\* channel goroutine g makes is channel g)
Started == {g \in Running : closes[g] = 0}

\* C24: at most one DAG-checking loop that has not been stopped is running
\* at any time, whatever the interleaving of the StartAutoDAG calls and the
\* goroutines: a StartAutoDAG call made while a loop is started spawns no
\* second loop.
C24_AtMostOneLoop == Cardinality(Started) <= 1

\* two loops wait in their select, each on its own open channel, and no
\* StopAutoDAG was ever called
C24_Witness ==
    /\ ~stopped
    /\ \A t \in Callers : stops[t] = "idle"
    /\ \A c \in Loops : closes[c] = 0
    /\ loops["g1"] = [pc |-> "wait", quit |-> "g1"]
    /\ loops["g2"] = [pc |-> "wait", quit |-> "g2"]

\* goroutine g has returned or is about to: it never ran, it returned, or
\* it waits in the select on a channel that is closed
Quitting(g) ==
    \/ loops[g].pc \in {"none", "returned"}
    \/ /\ loops[g].pc = "wait"
       /\ loops[g].quit # NilChan
       /\ closes[loops[g].quit] >= 1

\* C25: once a StopAutoDAG call has returned after StartAutoDAG, and until
\* StartAutoDAG is called again, every loop goroutine has returned or is
\* about to return from its select; no goroutine waits on a nil quit
\* channel; and no close panics (no channel is closed twice).
C25_StopQuitsTheLoop ==
    /\ ~panicked
    /\ \A c \in Loops : closes[c] <= 1
    /\ \A g \in Loops : loops[g].pc = "wait" => loops[g].quit # NilChan
    /\ stopped => \A g \in Loops : Quitting(g)

\* StopAutoDAG closed the channel and returned while the goroutine was
\* between two selects; the goroutine now waits on the nil channel
C25_Witness ==
    /\ stopped
    /\ ~panicked
    /\ \A t \in Callers : stops[t] = "idle"
    /\ autodagquit = NilChan
    /\ closes["g1"] = 1
    /\ loops["g1"] = [pc |-> "wait", quit |-> NilChan]
    /\ loops["g2"] = LoopIdle

====
